---- MODULE Spec2Model ----
(***************************************************************************)
(* State-machine model of two command-line programs of lamar-benchmark:    *)
(*   lamar/combine_results.py          (submission packaging)              *)
(*   pipelines/localize_single_image.py (single-image localization)        *)
(* Three specifications are defined:                                       *)
(*   SpecCombine  one call of combine_results over every input assignment  *)
(*   Spec         sequential runs of the localization script               *)
(*   SpecConc     runs of the localization script by two processes that    *)
(*                interleave on a shared file system                       *)
(***************************************************************************)
EXTENDS Integers, Sequences, FiniteSets, TLC

VARIABLES
    \* ---- combine_results.py ----
    cpc,               \* position inside combine_results
    description_path,  \* kind of the file behind --description_path
    results_paths,     \* sequence of <<key tokens, kind>> in dict order
    zip,               \* the submission_<timestamp>.zip file on disk
    cidx,              \* index of the next results_paths item
    cexc,              \* exception that ended combine_results
    \* ---- localize_single_image.py ----
    fs,                \* file system below each output directory
    pc,                \* position of each process in the script
    args,              \* parsed command line of each process
    run,               \* number of the run a process executes (0: none)
    nruns,             \* number of runs started so far
    capture,           \* Capture object in memory (loaded sessions)
    img,               \* (width, height) read by PIL
    configs,           \* the configs dict of localize_image
    query_list,        \* result of read_query_list
    started,           \* stage calls started, in order
    completed,         \* number of stage calls that returned
    poses,             \* pose_estimation.poses (set of keys with a pose)
    report,            \* what the result section printed
    returned,          \* localize_image returned pose_estimation
    raised,            \* exception that ended the run, with its place
    overlap            \* another run was active on the same output dir

cvars == <<cpc, description_path, results_paths, zip, cidx, cexc>>
lvars == <<fs, pc, args, run, nruns, capture, img, configs, query_list,
           started, completed, poses, report, returned, raised, overlap>>
vars == <<cvars, lvars>>

(***************************************************************************)
(*                        lamar/combine_results.py                         *)
(***************************************************************************)
LOCATIONS == <<"CAB", "LIN", "HGE">>
DEVICES == <<"hololens", "phone">>

\* str.lower() / str.upper() on the three location names.
Lower(s) ==
    CASE s = "CAB" -> "cab" [] s = "LIN" -> "lin" [] s = "HGE" -> "hge"
      [] OTHER -> s

Upper(s) ==
    CASE s = "cab" -> "CAB" [] s = "lin" -> "LIN" [] s = "hge" -> "HGE"
      [] OTHER -> s

\* The keys argparse creates, in creation order.  A key such as
\* cab_hololens_path is held as its "_"-separated tokens, which is what
\* name.split("_") returns.
ResultKeys ==
    [i \in 1..(Len(LOCATIONS) * Len(DEVICES)) |->
        <<Lower(LOCATIONS[((i - 1) \div Len(DEVICES)) + 1]),
          DEVICES[((i - 1) % Len(DEVICES)) + 1],
          "path">>]

\* What can lie behind a path: a regular .txt file, nothing, a directory
\* whose name ends in .txt, a regular file with another suffix.
PathKinds == {"txt", "missing", "dir", "json"}
NoPath == "None"

PathExists(k) == k # "missing"
PathIsFile(k) == k \in {"txt", "json"}
PathSuffix(k) == IF k = "json" THEN ".json" ELSE ".txt"

\* assert_valid_txt_path: TRUE when the three assertions pass.
assert_valid_txt_path(k) ==
    /\ PathExists(k)
    /\ PathIsFile(k)
    /\ PathSuffix(k) = ".txt"

\* Variant: the location is not upper-cased.
ArcNameAsGiven(name) ==
    LET split == SubSeq(name, 1, Len(name) - 1)
    IN  split[1] \o "_query_" \o split[2] \o ".txt"

\* split = name.split("_")[:-1]; arcname = f"{split[0].upper()}_query_{split[1]}.txt"
ArcName(name) ==
    LET split == SubSeq(name, 1, Len(name) - 1)
    IN  Upper(split[1]) \o "_query_" \o split[2] \o ".txt"

NoZip == [exists |-> FALSE, open |-> FALSE, entries |-> <<>>]

CombineInit ==
    /\ cpc = "start"
    /\ description_path \in PathKinds
    /\ results_paths \in
          {[i \in DOMAIN ResultKeys |-> <<ResultKeys[i], ks[i]>>] :
              ks \in [DOMAIN ResultKeys -> PathKinds \cup {NoPath}]}
    /\ zip = NoZip
    /\ cidx = 1
    /\ cexc = "none"

\* An exception inside the with block: ZipFile.__exit__ closes the archive
\* (writing its central directory) and the exception propagates.
CombineRaise(exc) ==
    /\ cpc' = "failed"
    /\ cexc' = exc
    /\ zip' = [zip EXCEPT !.open = FALSE]

\* Lines 23-29: the output directory is made and the archive opened in
\* mode "w", which creates the file.
OpenZip ==
    /\ cpc = "start"
    /\ cpc' = "description"
    /\ zip' = [exists |-> TRUE, open |-> TRUE, entries |-> <<>>]
    /\ UNCHANGED <<description_path, results_paths, cidx, cexc, lvars>>

\* Lines 31-33.
AddDescription ==
    /\ cpc = "description"
    /\ IF assert_valid_txt_path(description_path)
       THEN /\ zip' = [zip EXCEPT !.entries = Append(@, "description.txt")]
            /\ cpc' = "results"
            /\ cexc' = cexc
       ELSE CombineRaise("AssertionError")
    /\ UNCHANGED <<description_path, results_paths, cidx, lvars>>

\* Lines 34-44: one iteration of the loop over results_paths.items().
AddResult ==
    /\ cpc = "results"
    /\ cidx <= Len(results_paths)
    /\ LET name == results_paths[cidx][1]
           path == results_paths[cidx][2]
       IN  IF Len(name) # 3 \/ name[Len(name)] # "path"
           THEN CombineRaise("AssertionError") /\ cidx' = cidx
           ELSE IF path = NoPath
           THEN /\ cidx' = cidx + 1
                /\ UNCHANGED <<cpc, zip, cexc>>
           ELSE IF assert_valid_txt_path(path)
           THEN /\ zip' = [zip EXCEPT !.entries = Append(@, ArcName(name))]
                /\ cidx' = cidx + 1
                /\ UNCHANGED <<cpc, cexc>>
           ELSE CombineRaise("AssertionError") /\ cidx' = cidx
    /\ UNCHANGED <<description_path, results_paths, lvars>>

\* The loop is over: the with block closes the archive, line 45 logs.
CloseZip ==
    /\ cpc = "results"
    /\ cidx > Len(results_paths)
    /\ cpc' = "done"
    /\ zip' = [zip EXCEPT !.open = FALSE]
    /\ UNCHANGED <<description_path, results_paths, cidx, cexc, lvars>>

combine_results == OpenZip \/ AddDescription \/ AddResult \/ CloseZip

(***************************************************************************)
(*                  pipelines/localize_single_image.py                     *)
(***************************************************************************)
Procs == {"p1", "p2"}
OutDirs == {"out1", "out2"}

\* Command-line inputs.  "/maps/A" and "mapB" are existing session
\* directories (one given absolute, one relative), "nomap" does not exist;
\* "a.jpg" and "b.jpg" are images, "bad.jpg" exists but is no image,
\* "none.jpg" does not exist.
MapArgs == {"/maps/A", "mapB", "nomap"}
ImageArgs == {"a.jpg", "b.jpg", "bad.jpg", "none.jpg"}
ExistingPaths == {"/maps/A", "/cwd/mapB", "mapB", "a.jpg", "b.jpg", "bad.jpg"}
Decodable == {"a.jpg", "b.jpg"}

\* Path.exists()
Exists(path) == path \in ExistingPaths

\* Path.absolute(): the working directory is put before a relative path.
Absolute(path) == IF path = "/maps/A" THEN path ELSE "/cwd/" \o path

\* PIL: img.size
ImageSize(path) == IF path = "a.jpg" THEN <<640, 480>> ELSE <<300, 400>>

Max(a, b) == IF a >= b THEN a ELSE b

\* Lines 52-59.  focal = 0.7 * max(width, height) is held in tenths and
\* cx, cy = width / 2, height / 2 in halves.
Camera(size) ==
    LET width == size[1]
        height == size[2]
        focal_x10 == 7 * Max(width, height)
    IN  [id |-> "camera", model |-> "PINHOLE", width |-> width,
         height |-> height, fx_x10 |-> focal_x10, fy_x10 |-> focal_x10,
         cx_x2 |-> width, cy_x2 |-> height, name |-> "Phone camera"]

timestamp == 1000000
image_name == "query.jpg"

\* The key of the one image record, line 64, and what it maps to.
RecordKey == <<timestamp, "camera">>
RecordEntry == <<RecordKey, "images/" \o image_name>>

\* Variant: queries.txt names another timestamp than the record.
QueriesLineNextTimestamp == <<timestamp + 1, "camera">>

\* The line written to queries.txt, line 76, as the key it parses to.
QueriesLine == <<timestamp, "camera">>

\* Files of the session directory sessions/query_single.
ImageFile == "raw_data/images/query.jpg"
FileNames == {ImageFile, "sensors.txt", "images.txt", "queries.txt"}
NoFile == [by |-> 0, data |-> <<>>]
NoSession == [dir |-> FALSE, raw |-> FALSE, files |-> [f \in FileNames |-> NoFile]]
NoDir == [exists |-> FALSE, capture_dir |-> FALSE, sessions_dir |-> FALSE,
          map_link |-> "", session |-> NoSession]

NoArgs == [map_path |-> "", query_image |-> "", output_dir |-> ""]
NoMemSession == [present |-> FALSE, sensors |-> <<>>, images |-> <<>>, listing |-> {}]
NoCapture == [loaded |-> FALSE, map |-> FALSE, query |-> NoMemSession]
NoRaise == [exc |-> "none", at |-> "none"]
NoReport == [status |-> "none", shown |-> <<>>, more |-> 0, listed |-> FALSE]

\* Keys of the configs dict, in the order its literal evaluates them, with
\* the registry each is looked up in and the name looked up (lines 128-143).
ConfigKeys ==
    << <<"extraction", "FeatureExtraction", "superpoint">>,
       <<"pairs_map", "PairSelection", "netvlad">>,
       <<"matching", "FeatureMatching", "superglue">>,
       <<"mapping", "Mapping", "triangulation">>,
       <<"pairs_loc", "PairSelection", "netvlad">>,
       <<"poses", "PoseEstimation", "single_image">> >>
Registries == {ConfigKeys[i][2] : i \in DOMAIN ConfigKeys}
NoConfigs == [i \in DOMAIN ConfigKeys |-> "unset"]

\* Variant: the query features are extracted before the map is built.
StageCallsMappingLate ==
    << <<"FeatureExtraction", "map", "">>,
       <<"PairSelection", "map", "map">>,
       <<"FeatureMatching", "map", "map">>,
       <<"FeatureExtraction", "query_single", "">>,
       <<"Mapping", "map", "">>,
       <<"PairSelection", "query_single", "map">>,
       <<"FeatureMatching", "query_single", "map">>,
       <<"PoseEstimation", "query_single", "">> >>

\* The eight stage calls of lines 150-183: class, session, reference.
StageCalls ==
    << <<"FeatureExtraction", "map", "">>,
       <<"PairSelection", "map", "map">>,
       <<"FeatureMatching", "map", "map">>,
       <<"Mapping", "map", "">>,
       <<"FeatureExtraction", "query_single", "">>,
       <<"PairSelection", "query_single", "map">>,
       <<"FeatureMatching", "query_single", "map">>,
       <<"PoseEstimation", "query_single", "">> >>

\* Keys a pose result can hold: the query key and one foreign key.
PoseKeys == {<<timestamp, "camera">>, <<timestamp + 1, "camera">>}

LocalizeInit ==
    /\ fs = [d \in OutDirs |-> NoDir]
    /\ pc = [p \in Procs |-> "idle"]
    /\ args = [p \in Procs |-> NoArgs]
    /\ run = [p \in Procs |-> 0]
    /\ nruns = 0
    /\ capture = [p \in Procs |-> NoCapture]
    /\ img = [p \in Procs |-> <<0, 0>>]
    /\ configs = [p \in Procs |-> NoConfigs]
    /\ query_list = [p \in Procs |-> <<>>]
    /\ started = [p \in Procs |-> <<>>]
    /\ completed = [p \in Procs |-> 0]
    /\ poses = [p \in Procs |-> {}]
    /\ report = [p \in Procs |-> NoReport]
    /\ returned = [p \in Procs |-> FALSE]
    /\ raised = [p \in Procs |-> NoRaise]
    /\ overlap = [p \in Procs |-> FALSE]

\* Variables of a process other than pc and raised.
locals == <<args, run, capture, img, configs, query_list, started,
            completed, poses, report, returned, overlap>>

\* Variant: the capture directory does not depend on output_dir.
DirFixed(p) == "out1"

\* Lines 91-92: capture_dir is output_dir / "capture"; the file system is
\* held per output directory.
Dir(p) == args[p].output_dir

\* Lines 34 and 105: sessions_dir / "query_single".
Session(p) == fs[Dir(p)].session

\* An uncaught exception ends the process.  (No step of the localization
\* script touches the state of combine_results.)
Raise(p, exc) ==
    /\ pc' = [pc EXCEPT ![p] = "failed"]
    /\ raised' = [raised EXCEPT ![p] = [exc |-> exc, at |-> pc[p]]]
    /\ UNCHANGED cvars

Goto(p, next) ==
    /\ pc' = [pc EXCEPT ![p] = next]
    /\ raised' = raised
    /\ UNCHANGED cvars

\* Number of runs of the script one behaviour holds: run one after the
\* other, and by processes running at once.
MaxRuns == 3
MaxConcRuns == 2

\* The command line is parsed (line 234): the start of a run, its
\* arguments drawn from the sets given.
Start(p, maps, images, limit) ==
    /\ pc[p] = "idle"
    /\ nruns < limit
    /\ \E m \in maps, q \in images, o \in OutDirs :
          args' = [args EXCEPT ![p] =
                      [map_path |-> m, query_image |-> q, output_dir |-> o]]
    /\ nruns' = nruns + 1
    /\ run' = [run EXCEPT ![p] = nruns + 1]
    /\ Goto(p, "validate")
    /\ UNCHANGED <<fs, capture, img, configs, query_list, started, completed,
                   poses, report, returned, overlap>>

ParseArgs(p) == Start(p, MapArgs, ImageArgs, MaxRuns)

\* Variant: only map_path is validated.
ValidateMapOnly(p) ==
    /\ pc[p] = "validate"
    /\ IF ~Exists(args[p].map_path) THEN Raise(p, "FileNotFoundError")
       ELSE Goto(p, "mkdir_output")
    /\ UNCHANGED <<fs, nruns, locals>>

\* Lines 236-240.
Validate(p) ==
    /\ pc[p] = "validate"
    /\ IF ~Exists(args[p].map_path) THEN Raise(p, "FileNotFoundError")
       ELSE IF ~Exists(args[p].query_image) THEN Raise(p, "FileNotFoundError")
       ELSE Goto(p, "mkdir_output")
    /\ UNCHANGED <<fs, nruns, locals>>

\* Positions at which a process is inside localize_image and still running.
Working ==
    {"setup", "link_check", "link_create", "clean_check", "clean_rm", "load",
     "mk_session", "mk_raw", "copy", "open_image", "save_sensors",
     "save_images", "write_queries", "reload", "configs", "read_queries",
     "stages", "results"}

\* Line 242, and the call of line 245.
MkdirOutput(p) ==
    /\ pc[p] = "mkdir_output"
    /\ fs' = [fs EXCEPT ![args[p].output_dir].exists = TRUE]
    /\ LET others == {q \in Procs \ {p} : /\ pc[q] \in Working
                                           /\ args[q].output_dir = args[p].output_dir}
       IN  overlap' = [q \in Procs |->
                          IF q = p THEN others # {}
                          ELSE IF q \in others THEN TRUE ELSE overlap[q]]
    /\ Goto(p, "setup")
    /\ UNCHANGED <<nruns, args, run, capture, img, configs, query_list,
                   started, completed, poses, report, returned>>

\* Lines 91-96: capture_dir and sessions_dir, with their parents.
Setup(p) ==
    /\ pc[p] = "setup"
    /\ fs' = [fs EXCEPT ![Dir(p)].exists = TRUE,
                        ![Dir(p)].capture_dir = TRUE,
                        ![Dir(p)].sessions_dir = TRUE]
    /\ Goto(p, "link_check")
    /\ UNCHANGED <<nruns, locals>>

\* Line 100: Path.exists() follows the link.
MapLinkExists(d) == fs[d].map_link # "" /\ Exists(fs[d].map_link)

\* Variant: the map link is set on every run.
LinkCheckRelink(p) ==
    /\ pc[p] = "link_check"
    /\ fs' = [fs EXCEPT ![Dir(p)].map_link = Absolute(args[p].map_path)]
    /\ Goto(p, "clean_check")
    /\ UNCHANGED <<nruns, locals>>

LinkCheck(p) ==
    /\ pc[p] = "link_check"
    /\ IF MapLinkExists(Dir(p)) THEN Goto(p, "clean_check")
       ELSE Goto(p, "link_create")
    /\ UNCHANGED <<fs, nruns, locals>>

\* Line 102: symlink_to fails when an entry of that name is there.
LinkCreate(p) ==
    /\ pc[p] = "link_create"
    /\ IF fs[Dir(p)].map_link # ""
       THEN Raise(p, "FileExistsError") /\ fs' = fs
       ELSE /\ fs' = [fs EXCEPT ![Dir(p)].map_link = Absolute(args[p].map_path)]
            /\ Goto(p, "clean_check")
    /\ UNCHANGED <<nruns, locals>>

\* Variant: an existing query session is not removed.
CleanCheckSkip(p) ==
    /\ pc[p] = "clean_check"
    /\ Goto(p, "load")
    /\ UNCHANGED <<fs, nruns, locals>>

\* Line 106.
CleanCheck(p) ==
    /\ pc[p] = "clean_check"
    /\ IF Session(p).dir THEN Goto(p, "clean_rm") ELSE Goto(p, "load")
    /\ UNCHANGED <<fs, nruns, locals>>

\* Line 109: shutil.rmtree removes the directory and all below it; it
\* fails on a directory that is no longer there.
CleanRm(p) ==
    /\ pc[p] = "clean_rm"
    /\ IF ~Session(p).dir
       THEN Raise(p, "FileNotFoundError") /\ fs' = fs
       ELSE /\ fs' = [fs EXCEPT ![Dir(p)].session = NoSession]
            /\ Goto(p, "load")
    /\ UNCHANGED <<nruns, locals>>

\* Session.load of a session directory: sensors.txt is required, the other
\* files are read when present.
SessionLoad(sess) ==
    IF ~sess.dir \/ sess.files["sensors.txt"].by = 0
    THEN [ok |-> FALSE, session |-> NoMemSession]
    ELSE [ok |-> TRUE,
          session |-> [present |-> TRUE,
                       sensors |-> sess.files["sensors.txt"].data,
                       images |-> sess.files["images.txt"].data,
                       listing |-> {f \in FileNames : sess.files[f].by # 0}]]

\* Line 112: Capture.load reads every session below sessions_dir.
LoadCapture(p) ==
    /\ pc[p] = "load"
    /\ LET d == fs[Dir(p)]
           q == SessionLoad(d.session)
       IN  IF ~d.capture_dir \/ (d.session.dir /\ ~q.ok)
           THEN Raise(p, "IOError") /\ capture' = capture
           ELSE /\ capture' = [capture EXCEPT ![p] =
                                  [loaded |-> TRUE, map |-> d.map_link # "",
                                   query |-> q.session]]
                /\ Goto(p, "mk_session")
    /\ UNCHANGED <<fs, nruns, args, run, img, configs, query_list, started,
                   completed, poses, report, returned, overlap>>

\* A file of the session directory written by the run of p.
WriteFile(p, name, data) ==
    fs' = [fs EXCEPT ![Dir(p)].session.files[name] = [by |-> run[p], data |-> data]]

\* Lines 34-35: session_path.mkdir(exist_ok=True, parents=True).
MkSession(p) ==
    /\ pc[p] = "mk_session"
    /\ fs' = [fs EXCEPT ![Dir(p)].exists = TRUE,
                        ![Dir(p)].capture_dir = TRUE,
                        ![Dir(p)].sessions_dir = TRUE,
                        ![Dir(p)].session.dir = TRUE]
    /\ Goto(p, "mk_raw")
    /\ UNCHANGED <<nruns, locals>>

\* Lines 38-39: raw_data/images, with its parents.
MkRaw(p) ==
    /\ pc[p] = "mk_raw"
    /\ fs' = [fs EXCEPT ![Dir(p)].exists = TRUE,
                        ![Dir(p)].capture_dir = TRUE,
                        ![Dir(p)].sessions_dir = TRUE,
                        ![Dir(p)].session.dir = TRUE,
                        ![Dir(p)].session.raw = TRUE]
    /\ Goto(p, "copy")
    /\ UNCHANGED <<nruns, locals>>

\* Lines 42-44: shutil.copy2 into raw_data/images.
CopyImage(p) ==
    /\ pc[p] = "copy"
    /\ IF ~Session(p).raw
       THEN Raise(p, "FileNotFoundError") /\ fs' = fs
       ELSE /\ WriteFile(p, ImageFile, <<args[p].query_image>>)
            /\ Goto(p, "open_image")
    /\ UNCHANGED <<nruns, locals>>

\* Lines 48-50: the source image is opened and its size read; lines 52-68
\* build the sensors and the image records from it in memory.
OpenImage(p) ==
    /\ pc[p] = "open_image"
    /\ IF args[p].query_image \notin Decodable
       THEN Raise(p, "UnidentifiedImageError") /\ img' = img
       ELSE /\ img' = [img EXCEPT ![p] = ImageSize(args[p].query_image)]
            /\ Goto(p, "save_sensors")
    /\ UNCHANGED <<fs, nruns, args, run, capture, configs, query_list, started,
                   completed, poses, report, returned, overlap>>

\* Line 71.
SaveSensors(p) ==
    /\ pc[p] = "save_sensors"
    /\ IF ~Session(p).dir
       THEN Raise(p, "IOError") /\ fs' = fs
       ELSE /\ WriteFile(p, "sensors.txt", <<Camera(img[p])>>)
            /\ Goto(p, "save_images")
    /\ UNCHANGED <<nruns, locals>>

\* Line 72.
SaveImages(p) ==
    /\ pc[p] = "save_images"
    /\ IF ~Session(p).dir
       THEN Raise(p, "IOError") /\ fs' = fs
       ELSE /\ WriteFile(p, "images.txt", <<RecordEntry>>)
            /\ Goto(p, "write_queries")
    /\ UNCHANGED <<nruns, locals>>

\* Lines 75-76.
WriteQueries(p) ==
    /\ pc[p] = "write_queries"
    /\ IF ~Session(p).dir
       THEN Raise(p, "FileNotFoundError") /\ fs' = fs
       ELSE /\ WriteFile(p, "queries.txt", <<QueriesLine>>)
            /\ Goto(p, "reload")
    /\ UNCHANGED <<nruns, locals>>

\* Lines 78-81: capture.sessions[session_id] = Session.load(session_path).
Reload(p) ==
    /\ pc[p] = "reload"
    /\ LET q == SessionLoad(Session(p))
       IN  IF ~q.ok
           THEN Raise(p, "IOError") /\ capture' = capture
           ELSE /\ capture' = [capture EXCEPT ![p].query = q.session]
                /\ Goto(p, "configs")
    /\ UNCHANGED <<fs, nruns, args, run, img, configs, query_list, started,
                   completed, poses, report, returned, overlap>>

\* Lines 28-81 in order.
create_simple_query_session(p) ==
    \/ MkSession(p)
    \/ MkRaw(p)
    \/ CopyImage(p)
    \/ OpenImage(p)
    \/ SaveSensors(p)
    \/ SaveImages(p)
    \/ WriteQueries(p)
    \/ Reload(p)

\* Index of the first configs entry whose method name its registry lacks
\* (0: none), the registries that lack their name being `lacking`.
FirstUnknown(lacking) ==
    LET bad == {i \in DOMAIN ConfigKeys : ConfigKeys[i][2] \in lacking}
    IN  IF bad = {} THEN 0 ELSE CHOOSE i \in bad : \A j \in bad : i <= j

\* Variant: an unknown method name is left unresolved (dict.get).
ResolveConfigsLazy(p) ==
    /\ pc[p] = "configs"
    /\ \E lacking \in SUBSET Registries :
          /\ configs' = [configs EXCEPT ![p] =
                            [i \in DOMAIN ConfigKeys |->
                                IF ConfigKeys[i][2] \in lacking THEN "unset"
                                ELSE ConfigKeys[i][3]]]
          /\ Goto(p, "read_queries")
    /\ UNCHANGED <<fs, nruns, args, run, capture, img, query_list, started,
                   completed, poses, report, returned, overlap>>

\* Lines 128-143: the dict literal looks every method name up, in order;
\* an unknown name is a KeyError.
ResolveConfigs(p) ==
    /\ pc[p] = "configs"
    /\ \E lacking \in SUBSET Registries :
          LET k == FirstUnknown(lacking)
          IN  IF k # 0
              THEN Raise(p, "KeyError") /\ configs' = configs
              ELSE /\ configs' = [configs EXCEPT ![p] =
                                     [i \in DOMAIN ConfigKeys |-> ConfigKeys[i][3]]]
                   /\ Goto(p, "read_queries")
    /\ UNCHANGED <<fs, nruns, args, run, capture, img, query_list, started,
                   completed, poses, report, returned, overlap>>

\* Lines 146-148: read_query_list parses queries.txt.
ReadQueries(p) ==
    /\ pc[p] = "read_queries"
    /\ IF Session(p).files["queries.txt"].by = 0
       THEN Raise(p, "FileNotFoundError") /\ query_list' = query_list
       ELSE /\ query_list' = [query_list EXCEPT ![p] =
                                 Session(p).files["queries.txt"].data]
            /\ Goto(p, "stages")
    /\ UNCHANGED <<fs, nruns, args, run, capture, img, configs, started,
                   completed, poses, report, returned, overlap>>

\* Lines 150-183: the next stage call.  The constructor runs the stage; it
\* returns or raises.  The last call leaves the pose result.
RunStage(p) ==
    /\ pc[p] = "stages"
    /\ LET i == completed[p] + 1
       IN  /\ started' = [started EXCEPT ![p] = Append(@, StageCalls[i])]
           /\ \E ok \in BOOLEAN :
                IF ~ok
                THEN /\ Raise(p, "StageError")
                     /\ UNCHANGED <<completed, poses>>
                ELSE /\ completed' = [completed EXCEPT ![p] = i]
                     /\ IF i = Len(StageCalls)
                        THEN /\ \E ps \in SUBSET PoseKeys :
                                    poses' = [poses EXCEPT ![p] = ps]
                             /\ Goto(p, "results")
                        ELSE /\ poses' = poses
                             /\ Goto(p, "stages")
    /\ UNCHANGED <<fs, nruns, args, run, capture, img, configs, query_list,
                   report, returned, overlap>>

\* Number of candidate lines the result section prints (pairs[:10]).
ShowFirst == 10
\* Longest pairs file of the model, in lines.
MaxPairLines == 11

\* A line of the pairs file after line.strip().split(): its tokens.  Map
\* images are named by the number of their line.
PairLine(i, shape) ==
    CASE shape = "pair" -> <<"query.jpg", i>>
      [] shape = "blank" -> <<>>
      [] shape = "short" -> IF i % 2 = 1 THEN <<"query.jpg">> ELSE <<"query.jpg", i>>
      [] OTHER -> <<"query.jpg", i, "extra">>

\* pairs_loc.paths.pairs_hloc as the result section may find it.
PairsFiles ==
    {[exists |-> FALSE, lines |-> <<>>]} \cup
    {[exists |-> TRUE, lines |-> [i \in 1..n |-> PairLine(i, shape)]] :
        n \in 0..MaxPairLines, shape \in {"pair", "blank", "short", "long"}}

\* Lines 198-200: what one pair prints; pair[1] of a shorter line would
\* be an IndexError.
LineImage(pair) ==
    IF Len(pair) >= 2
    THEN [exc |-> "none", shown |-> <<pair[2]>>]
    ELSE [exc |-> "none", shown |-> <<>>]

\* Lines 197-200 over the lines given.
RECURSIVE Candidates(_)
Candidates(pairs) ==
    IF pairs = <<>> THEN [exc |-> "none", shown |-> <<>>]
    ELSE LET one == LineImage(Head(pairs))
             rest == Candidates(Tail(pairs))
         IN  IF one.exc # "none" THEN [exc |-> one.exc, shown |-> <<>>]
             ELSE [exc |-> rest.exc, shown |-> one.shown \o rest.shown]

\* Lines 191-203.
ShowPairs(file) ==
    IF ~file.exists THEN [exc |-> "none", shown |-> <<>>, more |-> 0, listed |-> FALSE]
    ELSE LET pairs == file.lines
             first == SubSeq(pairs, 1, IF Len(pairs) < ShowFirst THEN Len(pairs) ELSE ShowFirst)
             c == Candidates(first)
         IN  [exc |-> c.exc, shown |-> c.shown,
              more |-> IF Len(pairs) > ShowFirst THEN Len(pairs) - ShowFirst ELSE 0,
              listed |-> TRUE]

\* Variant: any pose in the result counts as success.
PoseStatusAnyPose(ps, ql) ==
    IF Cardinality(ps) > 0
    THEN [exc |-> "none", status |-> "localized"]
    ELSE [exc |-> "none", status |-> "no poses"]

\* Lines 205-220: query_list[0] of an empty list would be an IndexError.
PoseStatus(ps, ql) ==
    IF Cardinality(ps) > 0
    THEN IF Len(ql) = 0 THEN [exc |-> "IndexError", status |-> "none"]
         ELSE LET query_key == ql[1]
              IN  IF query_key \in ps
                  THEN [exc |-> "none", status |-> "localized"]
                  ELSE [exc |-> "none", status |-> "failed"]
    ELSE [exc |-> "none", status |-> "no poses"]

\* Lines 185-222: the result section, and the return; the pairs file is
\* one of `files`.
ResultsOn(p, files) ==
    /\ pc[p] = "results"
    /\ \E file \in files :
          LET shown == ShowPairs(file)
              st == PoseStatus(poses[p], query_list[p])
          IN  IF shown.exc # "none"
              THEN Raise(p, shown.exc) /\ UNCHANGED <<report, returned>>
              ELSE IF st.exc # "none"
              THEN /\ Raise(p, st.exc)
                   /\ report' = [report EXCEPT ![p] =
                                    [status |-> "none", shown |-> shown.shown,
                                     more |-> shown.more, listed |-> shown.listed]]
                   /\ returned' = returned
              ELSE /\ report' = [report EXCEPT ![p] =
                                    [status |-> st.status, shown |-> shown.shown,
                                     more |-> shown.more, listed |-> shown.listed]]
                   /\ returned' = [returned EXCEPT ![p] = TRUE]
                   /\ Goto(p, "done")
    /\ UNCHANGED <<fs, nruns, args, run, capture, img, configs, query_list,
                   started, completed, poses, overlap>>

Results(p) == ResultsOn(p, PairsFiles)

\* Lines 84-183.
Pipeline(p) ==
    \/ Setup(p)
    \/ LinkCheck(p)
    \/ LinkCreate(p)
    \/ CleanCheck(p)
    \/ CleanRm(p)
    \/ LoadCapture(p)
    \/ create_simple_query_session(p)
    \/ ResolveConfigs(p)
    \/ ReadQueries(p)
    \/ RunStage(p)

\* Lines 84-222.
localize_image(p) == Pipeline(p) \/ Results(p)

\* The process ends, normally or on its exception; its memory is gone.
Exit(p) ==
    /\ pc[p] \in {"done", "failed"}
    /\ pc' = [pc EXCEPT ![p] = "idle"]
    /\ raised' = [raised EXCEPT ![p] = NoRaise]
    /\ args' = [args EXCEPT ![p] = NoArgs]
    /\ run' = [run EXCEPT ![p] = 0]
    /\ capture' = [capture EXCEPT ![p] = NoCapture]
    /\ img' = [img EXCEPT ![p] = <<0, 0>>]
    /\ configs' = [configs EXCEPT ![p] = NoConfigs]
    /\ query_list' = [query_list EXCEPT ![p] = <<>>]
    /\ started' = [started EXCEPT ![p] = <<>>]
    /\ completed' = [completed EXCEPT ![p] = 0]
    /\ poses' = [poses EXCEPT ![p] = {}]
    /\ report' = [report EXCEPT ![p] = NoReport]
    /\ returned' = [returned EXCEPT ![p] = FALSE]
    /\ overlap' = [overlap EXCEPT ![p] = FALSE]
    /\ UNCHANGED <<fs, nruns, cvars>>

\* The script, lines 225-245.
main(p) ==
    \/ Validate(p)
    \/ MkdirOutput(p)
    \/ localize_image(p)
    \/ Exit(p)

\* A run starts when no other is in progress.
StartAlone(p) ==
    /\ \A q \in Procs \ {p} : pc[q] = "idle"
    /\ ParseArgs(p)

CombineIdle ==
    /\ cpc = "idle"
    /\ description_path = "txt"
    /\ results_paths = [i \in DOMAIN ResultKeys |-> <<ResultKeys[i], NoPath>>]
    /\ zip = NoZip
    /\ cidx = 1
    /\ cexc = "none"

Init == CombineIdle /\ LocalizeInit
Next == \E p \in Procs : StartAlone(p) \/ main(p)
Spec == Init /\ [][Next]_vars

\* Two processes run the script at once, each on an existing map and a
\* decodable image.
OwnImage(p) == IF p = "p1" THEN "a.jpg" ELSE "b.jpg"
StartConc(p) == Start(p, {"/maps/A"}, {OwnImage(p)}, MaxConcRuns)
ResultsConc(p) == ResultsOn(p, {f \in PairsFiles : Len(f.lines) = 0})

NextConc ==
    \E p \in Procs :
           \/ StartConc(p)
           \/ Validate(p)
           \/ MkdirOutput(p)
           \/ Pipeline(p)
           \/ ResultsConc(p)
           \/ Exit(p)
SpecConc == Init /\ [][NextConc]_vars

InitCombine == CombineInit /\ LocalizeInit
NextCombine == combine_results
SpecCombine == InitCombine /\ [][NextCombine]_vars

(***************************************************************************)
(*                              Properties                                 *)
(***************************************************************************)

\* C1: a successful combine_results leaves an archive whose entries are
\* description.txt and, for each result input that was given, its
\* LOCATION_query_device.txt name, each once, and nothing for an input
\* that was None; with cab_hololens_path alone the entries are
\* description.txt and CAB_query_hololens.txt.
C1_ArchiveEntries ==
    cpc = "done" =>
        LET expected ==
                [i \in 1..6 |->
                    CASE i = 1 -> <<"cab_hololens", "CAB_query_hololens.txt">>
                      [] i = 2 -> <<"cab_phone", "CAB_query_phone.txt">>
                      [] i = 3 -> <<"lin_hololens", "LIN_query_hololens.txt">>
                      [] i = 4 -> <<"lin_phone", "LIN_query_phone.txt">>
                      [] i = 5 -> <<"hge_hololens", "HGE_query_hololens.txt">>
                      [] OTHER -> <<"hge_phone", "HGE_query_phone.txt">>]
            given == {i \in 1..6 : results_paths[i][2] # NoPath}
            entries == {zip.entries[j] : j \in DOMAIN zip.entries}
        IN  /\ \A i \in 1..6 :
                  results_paths[i][1][1] \o "_" \o results_paths[i][1][2] = expected[i][1]
            /\ zip.exists /\ ~zip.open
            /\ Len(zip.entries) = 1 + Cardinality(given)
            /\ entries = {"description.txt"} \cup {expected[i][2] : i \in given}
            /\ given = {1} => zip.entries = <<"description.txt", "CAB_query_hololens.txt">>

C1_OnlyCabHololens ==
    /\ cpc = "done"
    /\ results_paths[1][2] = "txt"
    /\ \A i \in 2..6 : results_paths[i][2] = NoPath
    /\ Len(zip.entries) = 2

\* C2: when the description path or a given result path is missing, no
\* regular file or no .txt file, combine_results fails without a submission
\* zip file having been created.
C2_NoArchiveOnFailure ==
    cpc = "failed" => ~zip.exists

\* C3: a run whose map_path or query_image does not exist ends in
\* FileNotFoundError at the validation, starts no stage, and no step taken
\* while it runs changes the file system: no output directory, capture
\* directory, session directory or map link is made.
C3_FailFast ==
    /\ [](\A p \in Procs :
            ( /\ args[p].map_path = "nomap" \/ args[p].query_image = "none.jpg"
              /\ pc[p] # "validate" ) =>
                /\ pc[p] = "failed"
                /\ raised[p] = [exc |-> "FileNotFoundError", at |-> "validate"]
                /\ started[p] = <<>>
                /\ ~capture[p].loaded)
    /\ [][(\E p \in Procs :
              args[p].map_path = "nomap" \/ args[p].query_image = "none.jpg")
          => fs' = fs]_vars

C3_MissingInputRejected ==
    \E p \in Procs :
        /\ pc[p] = "failed"
        /\ args[p].map_path = "/maps/A"
        /\ args[p].query_image = "none.jpg"
        /\ ~fs[args[p].output_dir].exists

\* C4: once create_simple_query_session has returned, images.txt holds
\* exactly one record, keyed (1000000, "camera"); sensors.txt holds exactly
\* the sensor "camera"; queries.txt holds exactly that key; and the session
\* in capture.sessions is the one read back from these files after all of
\* them were written by this run.
C4_MinimalQuerySession ==
    \A p \in Procs :
        LET after == {"configs", "read_queries", "stages", "results", "done"}
            disk == fs[args[p].output_dir].session.files
            mem == capture[p].query
        IN  (pc[p] \in after \/ (pc[p] = "failed" /\ raised[p].at \in after)) =>
                /\ Len(disk["images.txt"].data) = 1
                /\ disk["images.txt"].data[1][1] = <<1000000, "camera">>
                /\ Len(disk["sensors.txt"].data) = 1
                /\ disk["sensors.txt"].data[1].id = disk["images.txt"].data[1][1][2]
                /\ disk["queries.txt"].data = <<disk["images.txt"].data[1][1]>>
                /\ \A f \in {"sensors.txt", "images.txt", "queries.txt"} :
                      disk[f].by = run[p] /\ f \in mem.listing
                /\ mem.present
                /\ mem.sensors = disk["sensors.txt"].data
                /\ mem.images = disk["images.txt"].data

C4_SessionBuiltOverEarlierRun ==
    \E p \in Procs :
        /\ pc[p] = "configs"
        /\ run[p] > 1
        /\ capture[p].query.present
        /\ capture[p].query.sensors[1].height = 400
        /\ fs[args[p].output_dir].map_link # Absolute(args[p].map_path)

\* C5: the result section never raises; it reports success exactly when
\* the query key is in the pose result and failure otherwise, whatever the
\* pairs file holds, and localize_image returns the pose estimation in
\* either case.
C5_ReportMatchesPoses ==
    \A p \in Procs :
        /\ raised[p].at # "results"
        /\ pc[p] = "done" =>
              /\ raised[p].exc = "none"
              /\ returned[p]
              /\ report[p].status = "localized" <=> <<1000000, "camera">> \in poses[p]
              /\ <<1000000, "camera">> \notin poses[p] =>
                    report[p].status \in {"failed", "no poses"}

C5_FailureReportedLongPairs ==
    \E p \in Procs :
        /\ pc[p] = "done"
        /\ poses[p] # {}
        /\ <<1000000, "camera">> \notin poses[p]
        /\ report[p].status = "failed"
        /\ report[p].more > 0
        /\ Len(report[p].shown) < 10
        /\ returned[p]

\* C6: the stage calls start in the order extraction(map), pairs(map,map),
\* matching(map,map), mapping, extraction(query), pairs(query,map),
\* matching(query,map), pose estimation; each starts after all before it
\* returned; after a stage failed the run is over, nothing later starts and
\* nothing is reported; pose estimation starts after mapping returned.
C6_StageOrder ==
    \A p \in Procs :
        LET order == << <<"FeatureExtraction", "map", "">>,
                        <<"PairSelection", "map", "map">>,
                        <<"FeatureMatching", "map", "map">>,
                        <<"Mapping", "map", "">>,
                        <<"FeatureExtraction", "query_single", "">>,
                        <<"PairSelection", "query_single", "map">>,
                        <<"FeatureMatching", "query_single", "map">>,
                        <<"PoseEstimation", "query_single", "">> >>
            n == Len(started[p])
        IN  /\ n <= 8
            /\ started[p] = SubSeq(order, 1, n)
            /\ completed[p] = n \/ completed[p] = n - 1
            /\ completed[p] < n =>
                  /\ pc[p] = "failed"
                  /\ raised[p].exc = "StageError"
                  /\ report[p].status = "none"
                  /\ ~returned[p]
            /\ report[p].status # "none" => completed[p] = 8
            /\ n = 8 => completed[p] >= 4

C6_FailedStageEndsRun ==
    \E p \in Procs :
        /\ pc[p] = "failed"
        /\ raised[p].exc = "StageError"
        /\ Len(started[p]) = 5
        /\ completed[p] = 4

\* C7: every method name of the configuration is looked up before the first
\* stage starts: a stage has started only with all six configs entries
\* resolved, and a KeyError for an unknown name is raised while the
\* configuration is built, with no stage started.
C7_ConfigsBeforeStages ==
    \A p \in Procs :
        /\ started[p] # <<>> =>
              configs[p] = <<"superpoint", "netvlad", "superglue",
                             "triangulation", "netvlad", "single_image">>
        /\ raised[p].exc = "KeyError" =>
              /\ raised[p].at = "configs"
              /\ started[p] = <<>>
              /\ pc[p] = "failed"

C7_UnknownMethodRejected ==
    \E p \in Procs :
        /\ pc[p] = "failed"
        /\ raised[p].exc = "KeyError"
        /\ started[p] = <<>>
        /\ capture[p].query.present

\* C8: from the cleanup on, the query session directory holds no file of
\* an earlier run; the capture is loaded without a query session; when
\* the session is built its four files are all of this run; and when no
\* run is in progress the files of a session directory are all of one run.
C8_LastWriteWins ==
    LET cleaned == {"load", "mk_session", "mk_raw", "copy", "open_image",
                    "save_sensors", "save_images", "write_queries", "reload",
                    "configs", "read_queries", "stages", "results", "done"}
        building == {"mk_session", "mk_raw", "copy", "open_image",
                     "save_sensors", "save_images", "write_queries", "reload"}
        built == {"configs", "read_queries", "stages", "results", "done"}
        files(d) == fs[d].session.files
    IN  /\ \A p \in Procs :
              LET at == IF pc[p] = "failed" THEN raised[p].at ELSE pc[p]
              IN  /\ at \in cleaned =>
                        \A f \in FileNames :
                            files(args[p].output_dir)[f].by \in {0, run[p]}
                  /\ at \in building =>
                        capture[p].loaded /\ ~capture[p].query.present
                  /\ at \in built =>
                        \A f \in FileNames :
                            /\ files(args[p].output_dir)[f].by = run[p]
                            /\ files(args[p].output_dir)["raw_data/images/query.jpg"].data
                                  = <<args[p].query_image>>
        /\ (\A p \in Procs : pc[p] = "idle") =>
              \A d \in OutDirs : \A f, g \in FileNames :
                  files(d)[f].by = 0 \/ files(d)[g].by = 0 \/ files(d)[f].by = files(d)[g].by

C8_RebuiltAfterEarlierRun ==
    \E p \in Procs :
        /\ pc[p] = "done"
        /\ run[p] = 3
        /\ fs[args[p].output_dir].map_link # Absolute(args[p].map_path)
        /\ \A f \in FileNames : fs[args[p].output_dir].session.files[f].by = 3

\* C9: a run that reloads or localizes a query session which is missing,
\* incomplete or holds files of another run (its image among them) has
\* been running together with another run on the same output directory;
\* runs on distinct output directories never get there, and two runs on
\* one output directory can.
C9_StaleOnlyWhenShared ==
    \A p \in Procs :
        ( /\ pc[p] \in {"reload", "configs", "read_queries", "stages", "results"}
          /\ \E f \in FileNames : Session(p).files[f].by # run[p] )
        => overlap[p]

C9_LocalizesOtherRunsImage ==
    \E p, q \in Procs :
        /\ p # q
        /\ pc[p] = "stages"
        /\ completed[p] >= 4
        /\ query_list[p] # <<>>
        /\ args[q].output_dir = args[p].output_dir
        /\ args[q].query_image # args[p].query_image
        /\ fs[args[p].output_dir].session.files["raw_data/images/query.jpg"]
              = [by |-> run[q], data |-> <<args[q].query_image>>]
        /\ fs[args[p].output_dir].session.files["queries.txt"].by = 0

\* C10: the map link of an output directory is made only when there is
\* none, as the link to the absolute map_path of the run that makes it,
\* and once made it never changes, whatever map_path later runs are given.
C10_MapLinkKept ==
    [][\A d \in OutDirs :
          /\ fs[d].map_link # "" => fs'[d].map_link = fs[d].map_link
          /\ fs'[d].map_link # fs[d].map_link =>
                \E p \in Procs :
                    /\ pc[p] = "link_create"
                    /\ args[p].output_dir = d
                    /\ fs'[d].map_link =
                          IF args[p].map_path = "mapB" THEN "/cwd/mapB" ELSE "/maps/A"]_vars

C10_LaterRunOtherMap ==
    \E p \in Procs :
        /\ pc[p] = "clean_check"
        /\ run[p] > 1
        /\ args[p].map_path = "mapB"
        /\ fs[args[p].output_dir].map_link = "/maps/A"

====
